---- MODULE Spec2Model ----
(***************************************************************************)
(* Model of the book generation pipeline of src/main.py: the backend       *)
(* client (generate_response), the two response parsers                    *)
(* (create_characters, create_plot_outline), chapter generation, export,   *)
(* and the control flow of main().                                         *)
(*                                                                         *)
(* Text.  A Python str is a sequence of lexemes.  A lexeme is a record     *)
(* [k, v, s]: k is its kind ("ws" whitespace, "word" any run of other      *)
(* characters that is no JSON token, "num" a JSON number, "null",          *)
(* "true", "false", "str" a double-quoted JSON string literal, and the     *)
(* six punctuation marks), v its spelling and s, for a string literal,     *)
(* the text between the quotes (again a sequence of lexemes).              *)
(***************************************************************************)
EXTENDS Integers, Sequences, FiniteSets, TLC

VARIABLES
  user_input,  \* main: what get_user_input returned (line 196)
  pc,          \* main: where the run is; "Aborted" is the return of line 212,
               \* "Crashed" an exception leaving main, "Exported" its end
  error,       \* the exception that left main, "" while none has
  book,        \* main: book (line 199), its characters (200) and chapters (216)
  plot,        \* main: plot (line 203), PyNone before
  i,           \* main: the loop variable of line 214
  sent,        \* the prompts handed to requests.post (line 53), in order
  body,        \* the body of the last response requests.post returned
  raw_text,    \* what generate_response returned for it (line 58)
  output       \* the file export_book wrote (lines 167-176)

vars == <<user_input, pc, error, book, plot, i, sent, body, raw_text, output>>

(* ------------------------------ bounds -------------------------------- *)

MaxChapters == 2

(* ------------------------------ lexemes ------------------------------- *)

WS == [k |-> "ws", v |-> " ", s |-> <<>>]

W(x) == [k |-> "word", v |-> x, s |-> <<>>]

P(x) == [k |-> x, v |-> x, s |-> <<>>]

Num(x) == [k |-> "num", v |-> x, s |-> <<>>]

Lit(x) == [k |-> x, v |-> x, s |-> <<>>]

Q(text) == [k |-> "str", v |-> "", s |-> text]

S(x) == <<W(x)>>

(* ------------------------- Python str methods ------------------------- *)

RECURSIVE LStrip(_)
LStrip(text) ==
  IF text # <<>> /\ Head(text).k = "ws" THEN LStrip(Tail(text)) ELSE text

RECURSIVE RStrip(_)
RStrip(text) ==
  IF text # <<>> /\ text[Len(text)].k = "ws"
  THEN RStrip(SubSeq(text, 1, Len(text) - 1))
  ELSE text

Strip(text) == RStrip(LStrip(text))

\* The characters of a text, one flag per character class: TRUE for a
\* whitespace character, FALSE for any other.  A string literal is its
\* opening quote, its content and its closing quote.
RECURSIVE IsSpaceSeq(_)
IsSpaceSeq(text) ==
  IF text = <<>> THEN <<>>
  ELSE LET h == Head(text) IN
       (IF h.k = "ws" THEN <<TRUE>>
        ELSE IF h.k = "str" THEN <<FALSE>> \o IsSpaceSeq(h.s) \o <<FALSE>>
        ELSE <<FALSE>>) \o IsSpaceSeq(Tail(text))

\* len(text.split()): the number of maximal runs of non-whitespace.
SplitLen(text) ==
  LET f == IsSpaceSeq(text) IN
  Cardinality({n \in 1..Len(f) : ~f[n] /\ (n = 1 \/ f[n - 1])})

(* --------------------------- Python values ---------------------------- *)

\* What json.loads and response.json() build: t is the Python type.
PyNone == [t |-> "NoneType", n |-> "", s |-> <<>>, keys |-> <<>>, items |-> <<>>]

PyBool(x) == [t |-> "bool", n |-> x, s |-> <<>>, keys |-> <<>>, items |-> <<>>]

PyInt(x) == [t |-> "int", n |-> x, s |-> <<>>, keys |-> <<>>, items |-> <<>>]

PyStr(text) == [t |-> "str", n |-> "", s |-> text, keys |-> <<>>, items |-> <<>>]

PyList(xs) == [t |-> "list", n |-> "", s |-> <<>>, keys |-> <<>>, items |-> xs]

PyDict(ks, xs) == [t |-> "dict", n |-> "", s |-> <<>>, keys |-> ks, items |-> xs]

HasKey(d, key) == \E n \in 1..Len(d.keys) : d.keys[n] = key

Get(d, key) == d.items[CHOOSE n \in 1..Len(d.keys) : d.keys[n] = key]

\* d[key] = value on a dict: a key already present keeps its place.
DictSet(d, key, value) ==
  IF HasKey(d, key)
  THEN PyDict(d.keys,
              [n \in 1..Len(d.items) |-> IF d.keys[n] = key THEN value ELSE d.items[n]])
  ELSE PyDict(Append(d.keys, key), Append(d.items, value))

\* bool(x), as `not x` and `if x` use it.
Truthy(x) ==
  CASE x.t = "NoneType" -> FALSE
    [] x.t = "bool" -> x.n = "true"
    [] x.t = "int" -> x.n # "0"
    [] x.t = "str" -> x.s # <<>>
    [] x.t = "list" -> x.items # <<>>
    [] x.t = "dict" -> x.keys # <<>>

(* ----------------------------- json.loads ----------------------------- *)

Tokens(text) == SelectSeq(text, LAMBDA l : l.k # "ws")

JFail == [ok |-> FALSE, val |-> PyNone, rest |-> <<>>]

JOk(x, rest) == [ok |-> TRUE, val |-> x, rest |-> rest]

RECURSIVE ParseValue(_), ParseElements(_, _), ParseMembers(_, _)
ParseValue(toks) ==
  IF toks = <<>> THEN JFail
  ELSE LET h == Head(toks)
           r == Tail(toks)
       IN CASE h.k = "str" -> JOk(PyStr(h.s), r)
            [] h.k = "num" -> JOk(PyInt(h.v), r)
            [] h.k = "null" -> JOk(PyNone, r)
            [] h.k \in {"true", "false"} -> JOk(PyBool(h.k), r)
            [] h.k = "[" ->
                 IF r # <<>> /\ Head(r).k = "]"
                 THEN JOk(PyList(<<>>), Tail(r))
                 ELSE ParseElements(r, <<>>)
            [] h.k = "{" ->
                 IF r # <<>> /\ Head(r).k = "}"
                 THEN JOk(PyDict(<<>>, <<>>), Tail(r))
                 ELSE ParseMembers(r, PyDict(<<>>, <<>>))
            [] OTHER -> JFail

ParseElements(toks, acc) ==
  LET e == ParseValue(toks) IN
  IF ~e.ok \/ e.rest = <<>> THEN JFail
  ELSE LET h == Head(e.rest) IN
       IF h.k = "," THEN ParseElements(Tail(e.rest), Append(acc, e.val))
       ELSE IF h.k = "]" THEN JOk(PyList(Append(acc, e.val)), Tail(e.rest))
       ELSE JFail

ParseMembers(toks, acc) ==
  IF Len(toks) < 2 \/ toks[1].k # "str" \/ toks[2].k # ":" THEN JFail
  ELSE LET e == ParseValue(SubSeq(toks, 3, Len(toks))) IN
       IF ~e.ok \/ e.rest = <<>> THEN JFail
       ELSE LET h == Head(e.rest)
                d == DictSet(acc, toks[1].s, e.val)
            IN IF h.k = "," THEN ParseMembers(Tail(e.rest), d)
               ELSE IF h.k = "}" THEN JOk(d, Tail(e.rest))
               ELSE JFail

\* json.loads(text): ok = FALSE stands for json.JSONDecodeError.
json_loads(text) ==
  LET r == ParseValue(Tokens(text)) IN
  IF r.ok /\ r.rest = <<>> THEN [ok |-> TRUE, val |-> r.val]
  ELSE [ok |-> FALSE, val |-> PyNone]

(* ------------------------ str() and f-strings ------------------------- *)

\* str(n) of a small non-negative integer.
IntStr(n) == <<"0", "1", "2", "3", "4", "5", "6", "7", "8", "9">>[n + 1]

\* sep.join(texts)
RECURSIVE Join(_, _)
Join(texts, sep) ==
  IF texts = <<>> THEN <<>>
  ELSE IF Len(texts) = 1 THEN texts[1]
  ELSE texts[1] \o sep \o Join(Tail(texts), sep)

\* repr(x): a str is shown between quotes, a list and a dict item by item.
RECURSIVE PyRepr(_)
PyRepr(x) ==
  CASE x.t = "NoneType" -> <<W("None")>>
    [] x.t = "bool" -> <<W(IF x.n = "true" THEN "True" ELSE "False")>>
    [] x.t = "int" -> <<W(x.n)>>
    [] x.t = "str" -> <<Q(x.s)>>
    [] x.t = "list" ->
         <<P("[")>> \o Join([n \in 1..Len(x.items) |-> PyRepr(x.items[n])],
                            <<P(","), WS>>) \o <<P("]")>>
    [] x.t = "dict" ->
         <<P("{")>> \o Join([n \in 1..Len(x.keys) |->
                               <<Q(x.keys[n]), P(":"), WS>> \o PyRepr(x.items[n])],
                            <<P(","), WS>>) \o <<P("}")>>

\* format(x) inside an f-string: a str is itself, anything else its repr.
PyFormat(x) == IF x.t = "str" THEN x.s ELSE PyRepr(x)

(* ----------------------------- data model ----------------------------- *)

CharacterFields == {"name", "background", "personality", "goals", "relationships"}

Scene(content) == [content |-> content, pov_character |-> PyNone, location |-> PyNone]

Chapter(number, title, summary, scenes, word_count) ==
  [number |-> number, title |-> title, summary |-> summary, scenes |-> scenes,
   word_count |-> word_count]

\* The value of `book` before main() has created the book.
NoBook ==
  [title |-> <<>>, genre |-> <<>>, target_audience |-> <<>>, themes |-> <<>>,
   characters |-> <<>>, chapters |-> <<>>,
   metadata |-> [created_by |-> "", version |-> ""]]

\* Character(**char): TypeError unless char is a mapping whose keys are
\* exactly the five fields of the dataclass; the values are not inspected.
CharacterOk(char) ==
  /\ char.t = "dict"
  /\ {char.keys[n] : n \in 1..Len(char.keys)} = {S(f) : f \in CharacterFields}

\* Mutant of Character: goals and background change places.
CharacterSwapped(char) ==
  [name |-> Get(char, S("name")), background |-> Get(char, S("goals")),
   personality |-> Get(char, S("personality")), goals |-> Get(char, S("background")),
   relationships |-> Get(char, S("relationships"))]

Character(char) ==
  [name |-> Get(char, S("name")), background |-> Get(char, S("background")),
   personality |-> Get(char, S("personality")), goals |-> Get(char, S("goals")),
   relationships |-> Get(char, S("relationships"))]

(* --------------------------- BookGenerator ---------------------------- *)

\* Mutant of generate_response: trailing whitespace is kept.
generate_response_lstrip(b) ==
  LET result == json_loads(b) IN
  IF ~result.ok THEN <<>>
  ELSE IF result.val.t # "dict" THEN <<>>
  ELSE IF ~HasKey(result.val, S("response")) THEN <<>>
  ELSE LET r == Get(result.val, S("response")) IN
       IF r.t # "str" THEN <<>> ELSE LStrip(r.s)

\* generate_response after requests.post has returned a response with body b.
\* response.json() failing, result.get on a non-dict and .strip() on a
\* non-str all raise inside the try and give "".
generate_response(b) ==
  LET result == json_loads(b) IN
  IF ~result.ok THEN <<>>
  ELSE IF result.val.t # "dict" THEN <<>>
  ELSE IF ~HasKey(result.val, S("response")) THEN Strip(<<>>)
  ELSE LET r == Get(result.val, S("response")) IN
       IF r.t # "str" THEN <<>> ELSE Strip(r.s)

\* Mutant of initialize_book: the title is read as user_input["title"].
initialize_book_title_required(input) ==
  IF "genre" \notin DOMAIN input \/ "themes" \notin DOMAIN input
       \/ "title" \notin DOMAIN input
  THEN [raised |-> "KeyError", book |-> NoBook]
  ELSE [raised |-> "",
        book |-> [title |-> input.title,
                  genre |-> input.genre,
                  target_audience |-> IF "target_audience" \in DOMAIN input
                                      THEN input.target_audience
                                      ELSE S("General"),
                  themes |-> input.themes,
                  characters |-> <<>>,
                  chapters |-> <<>>,
                  metadata |-> [created_by |-> "AI", version |-> "1.0"]]]

\* initialize_book: raised = "KeyError" when genre or themes is absent.
initialize_book(input) ==
  IF "genre" \notin DOMAIN input \/ "themes" \notin DOMAIN input
  THEN [raised |-> "KeyError", book |-> NoBook]
  ELSE [raised |-> "",
        book |-> [title |-> IF "title" \in DOMAIN input THEN input.title
                            ELSE <<W("Untitled"), WS, W("Novel")>>,
                  genre |-> input.genre,
                  target_audience |-> IF "target_audience" \in DOMAIN input
                                      THEN input.target_audience
                                      ELSE S("General"),
                  themes |-> input.themes,
                  characters |-> <<>>,
                  chapters |-> <<>>,
                  metadata |-> [created_by |-> "AI", version |-> "1.0"]]]

\* Mutant of CharactersPrompt: the prompt is an f-string.
CharactersPromptFormatted ==
  <<W("Generate five unique characters for the novel with title"), WS>>
    \o user_input.title \o <<W("."), WS,
    W("Generate the characters based on themes"), WS>>
    \o PyRepr(PyList([n \in 1..Len(user_input.themes) |-> PyStr(user_input.themes[n])]))
    \o <<WS, W("based on genre"), WS>> \o user_input.genre \o <<W("."), WS,
    W("Provide the result in JSON format example given:")>>

\* The prompt of create_characters is a plain string, not an f-string: the
\* braces of {title}, {themes} and {genre} are sent as written.
CharactersPrompt ==
  <<W("Generate five unique characters for the novel with title {title}."), WS,
    W("Generate the characters based on themes {themes} based on genre {genre}."), WS,
    W("Provide the result in JSON format example given:")>>

\* create_characters on the text generate_response returned.
create_characters(response) ==
  LET characters == json_loads(response) IN
  IF ~characters.ok THEN [raised |-> "", characters |-> <<>>]
  ELSE IF characters.val.t = "list"
  THEN LET cs == characters.val.items IN
       IF \A n \in 1..Len(cs) : CharacterOk(cs[n])
       THEN [raised |-> "", characters |-> [n \in 1..Len(cs) |-> Character(cs[n])]]
       ELSE [raised |-> "TypeError", characters |-> <<>>]
  ELSE [raised |-> "", characters |-> <<>>]

OutlinePrompt(num_chapters, genre, themes, title) ==
  <<W("Generate a structured plot outline for a"), WS>> \o genre
    \o <<WS, W("novel titled"), WS>> \o <<Q(title)>>
    \o <<WS, W("with"), WS, W(IntStr(num_chapters)), WS, W("chapters."), WS>>
    \o <<W("The novel explores the following themes:"), WS>>
    \o Join(themes, <<P(","), WS>>) \o <<W(".")>>

EmptyOutline == PyDict(<<S("chapters")>>, <<PyList(<<>>)>>)

\* `"chapters" in plot`: key membership for a dict, element membership for
\* a list, substring for a str; any other type raises TypeError.
InRaises(x) == x.t \notin {"dict", "list", "str"}

ChaptersIn(x) ==
  CASE x.t = "dict" -> HasKey(x, S("chapters"))
    [] x.t = "list" -> \E n \in 1..Len(x.items) : x.items[n] = PyStr(S("chapters"))
    [] x.t = "str" -> \E n \in 1..Len(x.s) : x.s[n] = W("chapters")
    [] OTHER -> FALSE

\* create_plot_outline on the text generate_response returned.
create_plot_outline(response) ==
  LET parsed == json_loads(response) IN
  IF ~parsed.ok THEN [raised |-> "", plot |-> EmptyOutline]
  ELSE IF InRaises(parsed.val) THEN [raised |-> "TypeError", plot |-> PyNone]
  ELSE IF ChaptersIn(parsed.val)
  THEN IF parsed.val.t # "dict" THEN [raised |-> "TypeError", plot |-> PyNone]
       ELSE IF Get(parsed.val, S("chapters")).t = "list"
       THEN [raised |-> "", plot |-> parsed.val]
       ELSE [raised |-> "", plot |-> EmptyOutline]
  ELSE [raised |-> "", plot |-> EmptyOutline]

\* Mutant of Skipped: `if chapter_summary is None`.
SkippedNone(chapter_summary) == chapter_summary.t = "NoneType"

\* generate_chapter, first branch: `if not chapter_summary`.
Skipped(chapter_summary) == ~Truthy(chapter_summary)

Placeholder == Chapter(0, <<>>, PyStr(<<>>), <<Scene(<<>>)>>, 0)

ChapterPrompt(chapter_number, chapter_summary) ==
  <<W("Expand the following chapter summary into a detailed chapter."), WS,
    W("Chapter"), WS, W(IntStr(chapter_number)), WS, W("Summary:"), WS>>
    \o PyFormat(chapter_summary)

\* Mutant of generate_chapter: the chapter is numbered from 0.
generate_chapter_from_zero(chapter_number, chapter_summary, content) ==
  Chapter(chapter_number - 1,
          <<W("Chapter"), WS, W(IntStr(chapter_number))>>,
          chapter_summary,
          <<Scene(content)>>,
          SplitLen(content))

\* Mutant of generate_chapter: word_count is len(content).
generate_chapter_len(chapter_number, chapter_summary, content) ==
  Chapter(chapter_number,
          <<W("Chapter"), WS, W(IntStr(chapter_number))>>,
          chapter_summary,
          <<Scene(content)>>,
          Len(content))

\* generate_chapter, second branch, on the text generate_response returned.
generate_chapter(chapter_number, chapter_summary, content) ==
  Chapter(chapter_number,
          <<W("Chapter"), WS, W(IntStr(chapter_number))>>,
          chapter_summary,
          <<Scene(content)>>,
          SplitLen(content))

\* Mutant of ChapterLines: the summary is followed by one newline, not two.
ChapterLinesNoBlank(chapter) ==
  << <<W("Chapter"), WS, W(IntStr(chapter.number)), P(":"), WS>> \o chapter.title,
     PyFormat(chapter.summary) >>
  \o Join([n \in 1..Len(chapter.scenes) |-> <<chapter.scenes[n].content, <<>>>>], <<>>)

\* The lines export_book writes, each without its newline.
ChapterLines(chapter) ==
  << <<W("Chapter"), WS, W(IntStr(chapter.number)), P(":"), WS>> \o chapter.title,
     PyFormat(chapter.summary),
     <<>> >>
  \o Join([n \in 1..Len(chapter.scenes) |-> <<chapter.scenes[n].content, <<>>>>], <<>>)

export_book(b) ==
  << <<W("Title:"), WS>> \o b.title,
     <<W("Genre:"), WS>> \o b.genre,
     <<W("Themes:"), WS>> \o Join(b.themes, <<P(","), WS>>),
     <<>> >>
  \o Join([n \in 1..Len(b.chapters) |-> ChapterLines(b.chapters[n])], <<>>)

(* --------------------------- the environment -------------------------- *)

\* JSON text of a Python value, as a backend writes it.
RECURSIVE Dumps(_)
Dumps(x) ==
  CASE x.t = "NoneType" -> <<Lit("null")>>
    [] x.t = "bool" -> <<Lit(x.n)>>
    [] x.t = "int" -> <<Num(x.n)>>
    [] x.t = "str" -> <<Q(x.s)>>
    [] x.t = "list" ->
         <<P("[")>> \o Join([n \in 1..Len(x.items) |-> Dumps(x.items[n])],
                            <<P(","), WS>>) \o <<P("]")>>
    [] x.t = "dict" ->
         <<P("{")>> \o Join([n \in 1..Len(x.keys) |->
                               <<Q(x.keys[n]), P(":"), WS>> \o Dumps(x.items[n])],
                            <<P(","), WS>>) \o <<P("}")>>

Str(x) == PyStr(S(x))

Alice ==
  PyDict(<<S("name"), S("background"), S("personality"), S("goals"), S("relationships")>>,
         <<Str("Alice"), PyStr(<<W("A"), WS, W("detective")>>), Str("Witty"),
           Str("Solve"), PyDict(<<S("Mentor")>>, <<Str("Bob")>>)>>)

\* The same five fields in another order, with values of other types.
Bob ==
  PyDict(<<S("goals"), S("name"), S("relationships"), S("personality"), S("background")>>,
         <<PyNone, Str("Bob"), PyDict(<<>>, <<>>), PyInt("7"), Str("Retired")>>)

NoGoals ==
  PyDict(<<S("name"), S("background"), S("personality"), S("relationships")>>,
         <<Str("Carol"), Str("Pilot"), Str("Calm"), PyDict(<<>>, <<>>)>>)

WithAge == DictSet(Alice, S("age"), PyInt("30"))

\* Completion texts the backend may return for the character prompt.
CharacterTexts ==
  { <<>>,
    <<W("Sure!"), WS, W("Here"), WS, W("are"), WS, W("five"), WS, W("characters.")>>,
    <<P("["), Q(S("name")), P(":")>>,
    Dumps(Alice),
    Dumps(PyInt("5")),
    Dumps(PyList(<<>>)),
    Dumps(PyList(<<Alice>>)),
    Dumps(PyList(<<Alice, Bob>>)),
    Dumps(PyList(<<Bob, Alice>>)),
    Dumps(PyList(<<Alice, NoGoals>>)),
    Dumps(PyList(<<WithAge>>)),
    Dumps(PyList(<<PyDict(<<>>, <<>>)>>)),
    Dumps(PyList(<<PyInt("5")>>)) }

Entry(number, title, summary) ==
  PyDict(<<S("chapter_number"), S("title"), S("summary")>>,
         <<PyInt(number), Str(title), summary>>)

NoSummary(number, title) ==
  PyDict(<<S("chapter_number"), S("title")>>, <<PyInt(number), Str(title)>>)

Outline(entries) == PyDict(<<S("chapters")>>, <<PyList(entries)>>)

S1 == Entry("1", "A", Str("S1"))

S2 == Entry("2", "B", PyStr(<<W("S2"), WS, W("ends")>>))

S3 == Entry("3", "C", Str("S3"))

\* Completion texts the backend may return for the outline prompt.
OutlineTexts ==
  { <<>>,
    <<W("Here"), WS, W("is"), WS, W("the"), WS, W("outline:")>>,
    <<P("{"), Q(S("chapters")), P(":"), P("[")>>,
    Dumps(PyNone),
    Dumps(PyInt("5")),
    Dumps(Str("none")),
    Dumps(PyStr(<<W("the"), WS, W("chapters"), WS, W("follow")>>)),
    Dumps(PyList(<<S1>>)),
    Dumps(PyList(<<Str("chapters")>>)),
    Dumps(PyDict(<<S("outline")>>, <<PyList(<<S1>>)>>)),
    Dumps(PyDict(<<S("chapters")>>, <<Str("none")>>)),
    Dumps(Outline(<<>>)),
    Dumps(Outline(<<S1>>)),
    Dumps(Outline(<<S1, S2>>)),
    Dumps(Outline(<<S1, S2, S3>>)),
    Dumps(Outline(<<Entry("9", "Z", Str("S1")), Entry("1", "A", Str("S2"))>>)),
    Dumps(Outline(<<Entry("1", "A", PyStr(<<>>)), S2, S3>>)),
    Dumps(Outline(<<S1, Entry("2", "B", PyStr(<<>>)), S3>>)),
    Dumps(Outline(<<S1, Entry("2", "B", PyNone), S3>>)),
    Dumps(Outline(<<S1, Entry("2", "B", PyInt("3")), S3>>)),
    Dumps(Outline(<<S1, NoSummary("2", "B"), S3>>)),
    Dumps(Outline(<<PyInt("1"), S2>>)) }

\* Completion texts the backend may return for a chapter prompt.
ChapterTexts ==
  { <<>>,
    <<W("Once"), WS, W("upon"), WS, W("a"), WS, W("time.")>>,
    <<W("She"), WS, W("said"), WS, Q(<<W("run"), WS, W("now")>>)>> }

\* The body of a backend answer whose completion is `text`.
Answer(text) ==
  Dumps(PyDict(<<S("model"), S("response"), S("done")>>,
               <<Str("mistral:7b"), PyStr(text), PyBool("true")>>))

\* Bodies without a usable completion: not JSON, empty, JSON that is no
\* object, an object without `response`, a `response` that is no string.
BadBodies ==
  { <<W("<html>502"), WS, W("Bad"), WS, W("Gateway</html>")>>,
    <<>>,
    Dumps(PyList(<<Str("response")>>)),
    Dumps(Str("response")),
    Dumps(PyDict(<<S("error")>>, <<Str("model not found")>>)),
    Dumps(PyDict(<<S("response")>>, <<PyInt("5")>>)),
    Dumps(PyDict(<<S("response")>>, <<PyNone>>)) }

\* What requests.post may do: raise (failed), or return a response whose
\* body is malformed or carries one of `texts`, bare or padded with
\* whitespace.
Replies(texts) ==
  {[failed |-> TRUE, body |-> <<>>]}
    \cup {[failed |-> FALSE, body |-> b] : b \in BadBodies}
    \cup {[failed |-> FALSE, body |-> Answer(t)] : t \in texts}
    \cup {[failed |-> FALSE, body |-> Answer(<<WS>> \o t \o <<WS, WS>>)] : t \in texts}

\* What get_user_input may return.
UserInputs ==
  [title : {S("Dune")},
   genre : {S("fantasy")},
   themes : {<<S("hope")>>, <<S("hope"), S("betrayal")>>},
   num_chapters : 1..MaxChapters]

\* An input with every key the code reads, and the optional one.
FullInput ==
  [title |-> S("Emma"), genre |-> S("romance"), themes |-> <<S("love")>>,
   target_audience |-> <<W("Young"), WS, W("adults")>>, num_chapters |-> 1]

\* What another input collaborator may hand to main: any of the above, or
\* an input that lacks some of the keys.
AnyInputs ==
  UserInputs \cup {[k \in K |-> FullInput[k]] : K \in SUBSET (DOMAIN FullInput)}

(* ------------------------------- main() ------------------------------- *)

Init ==
  /\ user_input \in UserInputs
  /\ pc = "Start"
  /\ error = ""
  /\ book = NoBook
  /\ plot = PyNone
  /\ i = 0
  /\ sent = <<>>
  /\ body = <<>>
  /\ raw_text = <<>>
  /\ output = [written |-> FALSE, path |-> <<>>, lines |-> <<>>]

\* The same start, for an input of any shape.
InitAnyInput ==
  /\ user_input \in AnyInputs
  /\ pc = "Start"
  /\ error = ""
  /\ book = NoBook
  /\ plot = PyNone
  /\ i = 0
  /\ sent = <<>>
  /\ body = <<>>
  /\ raw_text = <<>>
  /\ output = [written |-> FALSE, path |-> <<>>, lines |-> <<>>]

\* user_input[k] raises KeyError for some k of keys.
MissingKey(keys) == \E k \in keys : k \notin DOMAIN user_input

\* Mutant of Raise: the exception is recorded and the stage is run again.
Swallow(exception) ==
  /\ pc' = pc
  /\ error' = exception

Raise(exception) ==
  /\ pc' = "Crashed"
  /\ error' = exception

\* The request of generate_response: the prompt goes out, and either
\* requests.post raises or the body comes back and is reduced to raw_text.
Post(stage, prompt, reply) ==
  /\ sent' = Append(sent, [stage |-> stage, prompt |-> prompt])
  /\ IF reply.failed
     THEN UNCHANGED <<body, raw_text>>
     ELSE /\ body' = reply.body
          /\ raw_text' = generate_response(reply.body)

\* main, line 199.
InitializeBook ==
  /\ pc = "Start"
  /\ LET r == initialize_book(user_input) IN
     IF r.raised # ""
     THEN Raise(r.raised) /\ UNCHANGED book
     ELSE pc' = "Init" /\ book' = r.book /\ UNCHANGED error
  /\ UNCHANGED <<user_input, plot, i, sent, body, raw_text, output>>

\* main, lines 200-202.
CreateCharacters ==
  /\ pc = "Init"
  /\ IF MissingKey({"genre", "themes", "title"})
     THEN Raise("KeyError") /\ UNCHANGED <<book, sent, body, raw_text>>
     ELSE \E reply \in Replies(CharacterTexts) :
       /\ Post("characters", CharactersPrompt, reply)
       /\ IF reply.failed
          THEN Raise("ConnectionError") /\ UNCHANGED book
          ELSE LET r == create_characters(raw_text') IN
               IF r.raised # ""
               THEN Raise(r.raised) /\ UNCHANGED book
               ELSE /\ pc' = "CharactersGenerated"
                    /\ book' = [book EXCEPT !.characters = r.characters]
                    /\ UNCHANGED error
  /\ UNCHANGED <<user_input, plot, i, output>>

\* main, lines 203-208.
CreatePlotOutline ==
  /\ pc = "CharactersGenerated"
  /\ IF MissingKey({"num_chapters", "genre", "themes", "title"})
     THEN Raise("KeyError") /\ UNCHANGED <<plot, sent, body, raw_text>>
     ELSE \E reply \in Replies(OutlineTexts) :
       /\ Post("outline",
               OutlinePrompt(user_input.num_chapters, user_input.genre,
                             user_input.themes, user_input.title),
               reply)
       /\ IF reply.failed
          THEN Raise("ConnectionError") /\ UNCHANGED plot
          ELSE LET r == create_plot_outline(raw_text') IN
               IF r.raised # ""
               THEN Raise(r.raised) /\ UNCHANGED plot
               ELSE /\ pc' = "OutlineGenerated"
                    /\ plot' = r.plot
                    /\ UNCHANGED error
  /\ UNCHANGED <<user_input, book, i, output>>

\* Mutant of CheckOutline: the loop starts whatever the outline holds.
CheckOutlineNoAbort ==
  /\ pc = "OutlineGenerated"
  /\ pc' = "Expanding"
  /\ i' = 0
  /\ UNCHANGED <<user_input, error, book, plot, sent, body, raw_text, output>>

\* main, lines 210-214: the empty outline ends the run, any other starts
\* the loop over range(num_chapters).
CheckOutline ==
  /\ pc = "OutlineGenerated"
  /\ pc' = IF ~Truthy(Get(plot, S("chapters"))) THEN "Aborted"
           ELSE IF user_input.num_chapters = 0 THEN "ChaptersGenerated"
           ELSE "Expanding"
  /\ i' = 0
  /\ UNCHANGED <<user_input, error, book, plot, sent, body, raw_text, output>>

\* plot["chapters"][i]["summary"], i counted from 0: "" when it evaluates,
\* else the exception it raises.
SummaryRaises(n) ==
  LET chapters == Get(plot, S("chapters")).items IN
  IF n + 1 > Len(chapters) THEN "IndexError"
  ELSE IF chapters[n + 1].t \in {"NoneType", "bool", "int"} THEN "TypeError"
  ELSE IF chapters[n + 1].t \in {"str", "list"} THEN "TypeError"
  ELSE IF ~HasKey(chapters[n + 1], S("summary")) THEN "KeyError"
  ELSE ""

Summary(n) == Get(Get(plot, S("chapters")).items[n + 1], S("summary"))

\* Mutant of AppendChapter: book.chapters.insert(0, chapter).
AppendChapterInFront(chapter) ==
  /\ book' = [book EXCEPT !.chapters = <<chapter>> \o @]
  /\ i' = i + 1
  /\ pc' = IF i + 1 = user_input.num_chapters THEN "ChaptersGenerated" ELSE "Expanding"
  /\ UNCHANGED error

\* Mutant of AppendChapter: a chapter that came back empty is asked again.
AppendChapterRetry(chapter) ==
  IF chapter.number # 0 /\ chapter.word_count = 0
  THEN UNCHANGED <<book, i, pc, error>>
  ELSE /\ book' = [book EXCEPT !.chapters = Append(@, chapter)]
       /\ i' = i + 1
       /\ pc' = IF i + 1 = user_input.num_chapters THEN "ChaptersGenerated"
                ELSE "Expanding"
       /\ UNCHANGED error

AppendChapter(chapter) ==
  /\ book' = [book EXCEPT !.chapters = Append(@, chapter)]
  /\ i' = i + 1
  /\ pc' = IF i + 1 = user_input.num_chapters THEN "ChaptersGenerated" ELSE "Expanding"
  /\ UNCHANGED error

\* Mutant of GenerateChapter: the chapter is numbered by the entry's
\* chapter_number instead of i + 1.
GenerateChapterOutlineNumber ==
  /\ pc = "Expanding"
  /\ IF SummaryRaises(i) # ""
     THEN Raise(SummaryRaises(i)) /\ UNCHANGED <<book, i, sent, body, raw_text>>
     ELSE IF Skipped(Summary(i))
     THEN AppendChapter(Placeholder) /\ UNCHANGED <<sent, body, raw_text>>
     ELSE LET entry == Get(plot, S("chapters")).items[i + 1]
              number == IF HasKey(entry, S("chapter_number"))
                        THEN CHOOSE k \in 0..9 :
                               IntStr(k) = Get(entry, S("chapter_number")).n
                        ELSE i + 1
          IN \E reply \in Replies(ChapterTexts) :
               /\ Post("chapter", ChapterPrompt(number, Summary(i)), reply)
               /\ IF reply.failed
                  THEN Raise("ConnectionError") /\ UNCHANGED <<book, i>>
                  ELSE AppendChapter(generate_chapter(number, Summary(i), raw_text'))
  /\ UNCHANGED <<user_input, plot, output>>

\* Mutant of GenerateChapter: the loop runs over reversed(range(num_chapters)).
GenerateChapterDescending ==
  /\ pc = "Expanding"
  /\ LET j == user_input.num_chapters - 1 - i IN
     IF SummaryRaises(j) # ""
     THEN Raise(SummaryRaises(j)) /\ UNCHANGED <<book, i, sent, body, raw_text>>
     ELSE IF Skipped(Summary(j))
     THEN AppendChapter(Placeholder) /\ UNCHANGED <<sent, body, raw_text>>
     ELSE \E reply \in Replies(ChapterTexts) :
            /\ Post("chapter", ChapterPrompt(j + 1, Summary(j)), reply)
            /\ IF reply.failed
               THEN Raise("ConnectionError") /\ UNCHANGED <<book, i>>
               ELSE AppendChapter(generate_chapter(j + 1, Summary(j), raw_text'))
  /\ UNCHANGED <<user_input, plot, output>>

\* main, lines 214-216: one iteration of the loop.
GenerateChapter ==
  /\ pc = "Expanding"
  /\ IF SummaryRaises(i) # ""
     THEN Raise(SummaryRaises(i)) /\ UNCHANGED <<book, i, sent, body, raw_text>>
     ELSE IF Skipped(Summary(i))
     THEN AppendChapter(Placeholder) /\ UNCHANGED <<sent, body, raw_text>>
     ELSE \E reply \in Replies(ChapterTexts) :
            /\ Post("chapter", ChapterPrompt(i + 1, Summary(i)), reply)
            /\ IF reply.failed
               THEN Raise("ConnectionError") /\ UNCHANGED <<book, i>>
               ELSE AppendChapter(generate_chapter(i + 1, Summary(i), raw_text'))
  /\ UNCHANGED <<user_input, plot, output>>

\* export_book, line 166: os.path.join(output_dir, "generated_novel.txt").
OutputPath(output_dir) == <<output_dir, "generated_novel.txt">>

\* main, lines 218-219.
ExportBook ==
  /\ pc = "ChaptersGenerated"
  /\ output' = [written |-> TRUE, path |-> OutputPath("output"),
                lines |-> export_book(book)]
  /\ pc' = "Exported"
  /\ UNCHANGED <<user_input, error, book, plot, i, sent, body, raw_text>>

Next ==
  \/ InitializeBook
  \/ CreateCharacters
  \/ CreatePlotOutline
  \/ CheckOutline
  \/ GenerateChapter
  \/ ExportBook

Spec == Init /\ [][Next]_vars

\* main() on an input of any shape.
SpecAnyInput == InitAnyInput /\ [][Next]_vars

(* ------------------------------ claims -------------------------------- *)

\* The entries of the outline main() holds, once the outline stage returned.
OutlineEntries == Get(plot, S("chapters")).items

NoChapterRequest == \A n \in 1..Len(sent) : sent[n].stage # "chapter"

\* The last request was answered (requests.post returned).
Answered == Len(sent) > 0 /\ ~(pc = "Crashed" /\ error = "ConnectionError")

\* C1: once the outline stage has yielded an empty chapter list the run is
\* at the outline check or Aborted, nothing was exported, no chapter
\* request was sent and the book has no chapter; and the step taken from
\* the outline check then leads to Aborted.
C1_EmptyOutlineAborts ==
  /\ []((plot # PyNone /\ OutlineEntries = <<>>) =>
          /\ pc \in {"OutlineGenerated", "Aborted"}
          /\ ~output.written
          /\ NoChapterRequest
          /\ book.chapters = <<>>)
  /\ [][(pc = "OutlineGenerated" /\ OutlineEntries = <<>>) =>
          (pc' = "Aborted" /\ sent' = sent /\ output' = output)]_vars

\* A run Aborted on an outline completion that is no JSON at all.
C1_Witness ==
  /\ pc = "Aborted"
  /\ Len(sent) = 2
  /\ ~json_loads(raw_text).ok
  /\ raw_text # <<>>

\* C2: without a transport failure the run can only stop Aborted, on an
\* empty outline, or Exported: it never stops on another exception.
C2_StopsAbortedOrExported ==
  /\ pc = "Crashed" => error = "ConnectionError"
  /\ pc = "Aborted" => OutlineEntries = <<>>

\* The completion text is malformed JSON, JSON that is no array, or an
\* array with an object that omits a field of Character.
DegradedCharacters(text) ==
  LET r == json_loads(text) IN
  \/ ~r.ok
  \/ r.val.t # "list"
  \/ \E n \in 1..Len(r.val.items) :
       /\ r.val.items[n].t = "dict"
       /\ \E f \in CharacterFields : ~HasKey(r.val.items[n], S(f))

\* C3: whatever the character completion is, create_characters returns and
\* the run reaches CharactersGenerated; on a malformed, non-array or
\* field-omitting completion it does so with zero characters.
C3_CharacterStageTotal ==
  (Len(sent) = 1 /\ Answered) =>
    /\ pc = "CharactersGenerated"
    /\ DegradedCharacters(raw_text) => book.characters = <<>>

\* The completion text is a JSON object whose `chapters` value is an array.
ValidOutline(text) ==
  LET r == json_loads(text) IN
  /\ r.ok
  /\ r.val.t = "dict"
  /\ HasKey(r.val, S("chapters"))
  /\ Get(r.val, S("chapters")).t = "list"

\* C4: whatever the outline completion is, create_plot_outline returns, and
\* for a completion that is no object with a `chapters` array it returns
\* the empty outline.
C4_OutlineParseTotal ==
  (Len(sent) = 2 /\ Answered) =>
    /\ plot # PyNone
    /\ ~ValidOutline(raw_text) => plot = EmptyOutline

\* Position k (from 1) of the outline is absent, or its entry has no
\* summary, or an empty one.
NoUsableSummary(k) ==
  \/ k > Len(OutlineEntries)
  \/ /\ OutlineEntries[k].t = "dict"
     /\ \/ ~HasKey(OutlineEntries[k], S("summary"))
        \/ Get(OutlineEntries[k], S("summary")) = PyStr(<<>>)

\* C5: with a non-empty outline, a position without a usable summary gets
\* the placeholder chapter and the loop goes on: the run does not stop on
\* the lookup, and the exported book has one chapter per position.
C5_PlaceholderKeepsAlignment ==
  (plot # PyNone /\ OutlineEntries # <<>>) =>
    /\ pc = "Crashed" => error \notin {"IndexError", "KeyError"}
    /\ \A k \in 1..Len(book.chapters) :
         NoUsableSummary(k) => book.chapters[k].number = 0
    /\ pc = "Exported" => Len(book.chapters) = user_input.num_chapters

\* C6: the iteration for a chapter whose outline summary is the empty
\* string sends no request and appends a chapter with number 0, empty
\* title, empty summary, word_count 0 and one scene with empty content.
C6_EmptySummaryPlaceholder ==
  [][(/\ pc = "Expanding"
      /\ i < Len(OutlineEntries)
      /\ OutlineEntries[i + 1].t = "dict"
      /\ HasKey(OutlineEntries[i + 1], S("summary"))
      /\ Get(OutlineEntries[i + 1], S("summary")) = PyStr(<<>>)) =>
       /\ sent' = sent
       /\ Len(book'.chapters) = Len(book.chapters) + 1
       /\ LET c == book'.chapters[Len(book'.chapters)] IN
          /\ c.number = 0
          /\ c.title = <<>>
          /\ c.summary = PyStr(<<>>)
          /\ c.word_count = 0
          /\ Len(c.scenes) = 1
          /\ c.scenes[1].content = <<>>]_vars

\* The second chapter was skipped for its empty summary after the first
\* was expanded.
C6_Witness ==
  /\ Len(book.chapters) >= 2
  /\ Get(OutlineEntries[2], S("summary")) = PyStr(<<>>)
  /\ book.chapters[2].number = 0
  /\ book.chapters[1].number = 1
  /\ Len(sent) = 3

\* C7: a transport failure stops the run at that call, with nothing
\* exported, and no request or export follows it.
C7_TransportFailureAborts ==
  /\ [](error = "ConnectionError" => (pc = "Crashed" /\ ~output.written))
  /\ [][error = "ConnectionError" => (sent' = sent /\ output' = output)]_vars

\* The request for the second chapter failed after the first chapter was
\* generated.
C7_Witness ==
  /\ error = "ConnectionError"
  /\ Len(book.chapters) = 1
  /\ book.chapters[1].word_count > 0
  /\ sent[Len(sent)].stage = "chapter"
  /\ ~output.written

\* r is text with its leading and trailing whitespace removed.
IsStripOf(r, text) ==
  /\ r = <<>> \/ (r[1].k # "ws" /\ r[Len(r)].k # "ws")
  /\ \E a \in 0..Len(text) :
       /\ a + Len(r) <= Len(text)
       /\ SubSeq(text, a + 1, a + Len(r)) = r
       /\ \A n \in 1..Len(text) : (n <= a \/ n > a + Len(r)) => text[n].k = "ws"

\* The body is a JSON object with a string `response`.
HasCompletion(b) ==
  LET r == json_loads(b) IN
  /\ r.ok
  /\ r.val.t = "dict"
  /\ HasKey(r.val, S("response"))
  /\ Get(r.val, S("response")).t = "str"

\* C8: what generate_response returned for the last body received is the
\* body's `response` string stripped of surrounding whitespace, and the
\* empty string for a body that is no JSON, no object, has no `response`
\* or one that is no string.
C8_GenerateResponseTotal ==
  IF HasCompletion(body)
  THEN IsStripOf(raw_text, Get(json_loads(body).val, S("response")).s)
  ELSE raw_text = <<>>

\* A completion that was padded with whitespace came back stripped.
C8_Witness ==
  /\ HasCompletion(body)
  /\ raw_text # <<>>
  /\ raw_text # Get(json_loads(body).val, S("response")).s

\* The completion text is a JSON array of objects that each have exactly
\* the five fields of Character.
WellFormedCharacters(text) ==
  LET r == json_loads(text) IN
  /\ r.ok
  /\ r.val.t = "list"
  /\ \A n \in 1..Len(r.val.items) :
       /\ r.val.items[n].t = "dict"
       /\ Len(r.val.items[n].keys) = 5
       /\ \A f \in CharacterFields : HasKey(r.val.items[n], S(f))

\* C9: for a completion that is an array of N well-formed objects the
\* book gets N characters, in the array's order, each field the JSON value
\* of that name.
C9_CharactersVerbatim ==
  (Len(sent) = 1 /\ Answered /\ WellFormedCharacters(raw_text)) =>
    LET objs == json_loads(raw_text).val.items IN
    /\ pc = "CharactersGenerated"
    /\ Len(book.characters) = Len(objs)
    /\ \A n \in 1..Len(objs) :
         /\ book.characters[n].name = Get(objs[n], S("name"))
         /\ book.characters[n].background = Get(objs[n], S("background"))
         /\ book.characters[n].personality = Get(objs[n], S("personality"))
         /\ book.characters[n].goals = Get(objs[n], S("goals"))
         /\ book.characters[n].relationships = Get(objs[n], S("relationships"))

\* Two characters were parsed, the second from an object whose fields come
\* in another order.
C9_Witness ==
  /\ Len(sent) = 1
  /\ pc = "CharactersGenerated"
  /\ Len(book.characters) = 2
  /\ book.characters[1].name = Str("Alice")
  /\ book.characters[2].name = Str("Bob")
  /\ book.characters[2].goals = PyNone

\* Entry k of the outline has a summary that is a non-empty string.
NonEmptySummary(k) ==
  /\ k <= Len(OutlineEntries)
  /\ OutlineEntries[k].t = "dict"
  /\ HasKey(OutlineEntries[k], S("summary"))
  /\ Get(OutlineEntries[k], S("summary")).t = "str"
  /\ Get(OutlineEntries[k], S("summary")).s # <<>>

\* The last request that was answered.
LastAnswered == sent[Len(sent) - (IF error = "ConnectionError" THEN 1 ELSE 0)]

\* C10: a chapter appended at a position whose outline entry has a
\* non-empty summary has that position as number, that summary, and one
\* scene; while it is the last chapter of the book, the last answered
\* request is its expansion prompt and its scene holds what
\* generate_response returned for it; no later step changes a chapter once
\* appended.
C10_ExpandedChapter ==
  /\ [](\A k \in 1..Len(book.chapters) :
          NonEmptySummary(k) =>
            /\ book.chapters[k].number = k
            /\ book.chapters[k].summary = Get(OutlineEntries[k], S("summary"))
            /\ Len(book.chapters[k].scenes) = 1
            /\ k = Len(book.chapters) =>
                 /\ LastAnswered.stage = "chapter"
                 /\ LastAnswered.prompt = ChapterPrompt(k, Get(OutlineEntries[k], S("summary")))
                 /\ book.chapters[k].scenes[1].content = raw_text)
  /\ [][\A k \in 1..Len(book.chapters) :
          /\ Len(book'.chapters) >= k
          /\ book'.chapters[k] = book.chapters[k]]_vars

\* The spec's example: two entries with summaries S1 and S2, two chapters
\* requested, both expanded with prose, and the book exported.
C10_Witness ==
  /\ pc = "Exported"
  /\ user_input.num_chapters = 2
  /\ Len(book.chapters) = 2
  /\ book.chapters[1].summary = Str("S1")
  /\ book.chapters[2].summary = PyStr(<<W("S2"), WS, W("ends")>>)
  /\ book.chapters[1].word_count > 0
  /\ book.chapters[2].scenes[1].content = raw_text
  /\ raw_text # <<>>

\* The scenes' content, one after the other.
RECURSIVE ScenesText(_)
ScenesText(scenes) ==
  IF scenes = <<>> THEN <<>> ELSE Head(scenes).content \o ScenesText(Tail(scenes))

\* The number of whitespace-delimited tokens of a text given as its
\* characters' whitespace flags; inside tells whether the character before
\* belongs to a token.
RECURSIVE TokenCount(_, _)
TokenCount(flags, inside) ==
  IF flags = <<>> THEN 0
  ELSE IF Head(flags) THEN TokenCount(Tail(flags), FALSE)
  ELSE (IF inside THEN 0 ELSE 1) + TokenCount(Tail(flags), TRUE)

\* C11: every chapter of the book, placeholder or generated, has as
\* word_count the number of whitespace-delimited tokens of its scenes'
\* content put together.
C11_WordCountDerived ==
  \A k \in 1..Len(book.chapters) :
    book.chapters[k].word_count
      = TokenCount(IsSpaceSeq(ScenesText(book.chapters[k].scenes)), FALSE)

\* A chapter whose expansion came back empty, followed by one whose prose
\* holds a quoted phrase with a space in it.
C11_Witness ==
  /\ Len(book.chapters) = 2
  /\ book.chapters[1].number = 1
  /\ book.chapters[1].scenes[1].content = <<>>
  /\ book.chapters[1].word_count = 0
  /\ book.chapters[2].scenes[1].content
       = <<W("She"), WS, W("said"), WS, Q(<<W("run"), WS, W("now")>>)>>
  /\ book.chapters[2].word_count = 4

\* C12: the k-th chapter of the book, in the order appended, has number k.
C12_NumbersContiguous ==
  \A k \in 1..Len(book.chapters) : book.chapters[k].number = k

\* The requests of a stage, as indices into sent.
Requests(stage) == {n \in 1..Len(sent) : sent[n].stage = stage}

\* The chapter position a chapter prompt names ("Chapter <k> Summary:").
PromptPosition(prompt) == CHOOSE k \in 0..9 : prompt[5] = W(IntStr(k))

\* C13: the backend gets at most one character request, at most one
\* outline request and at most one expansion request for each position
\* 1..N, hence at most N + 2 requests, and no request is sent twice.
C13_NoRetry ==
  /\ Cardinality(Requests("characters")) <= 1
  /\ Cardinality(Requests("outline")) <= 1
  /\ \A n \in Requests("chapter") :
       PromptPosition(sent[n].prompt) \in 1..user_input.num_chapters
  /\ \A m, n \in Requests("chapter") :
       PromptPosition(sent[m].prompt) = PromptPosition(sent[n].prompt) => m = n
  /\ \A m, n \in 1..Len(sent) : sent[m] = sent[n] => m = n
  /\ Len(sent) <= user_input.num_chapters + 2

\* A run that sent all N + 2 requests, one of them answered with an empty
\* completion, and exported.
C13_Witness ==
  /\ pc = "Exported"
  /\ Len(sent) = user_input.num_chapters + 2
  /\ user_input.num_chapters = 2
  /\ book.chapters[1].number = 1
  /\ book.chapters[1].word_count = 0

\* The input has the two keys initialize_book requires.
HasRequiredKeys == "genre" \in DOMAIN user_input /\ "themes" \in DOMAIN user_input

RECURSIVE ThemesText(_)
ThemesText(n) ==
  IF n = 0 THEN <<>>
  ELSE IF n = 1 THEN book.themes[1]
  ELSE ThemesText(n - 1) \o <<P(","), WS>> \o book.themes[n]

\* The number of lines written before the header of chapter k.
RECURSIVE LinesBefore(_)
LinesBefore(k) ==
  IF k = 1 THEN 4
  ELSE LinesBefore(k - 1) + 3 + 2 * Len(book.chapters[k - 1].scenes)

\* C15: the exported file, at the path export_book returns, holds the
\* title, genre and themes lines (themes joined by ", " in their order), a
\* blank line, then for each chapter of the book, in order and once, its
\* header "Chapter <number>: <title>", its summary, a blank line and each
\* scene's content followed by a blank line, and nothing else.
C15_ExportLayout ==
  output.written =>
    LET L == output.lines
        cs == book.chapters
    IN /\ output.path = <<"output", "generated_novel.txt">>
       /\ Len(L) = LinesBefore(Len(cs) + 1)
       /\ L[1] = <<W("Title:"), WS>> \o book.title
       /\ L[2] = <<W("Genre:"), WS>> \o book.genre
       /\ L[3] = <<W("Themes:"), WS>> \o ThemesText(Len(book.themes))
       /\ L[4] = <<>>
       /\ \A k \in 1..Len(cs) :
            LET at == LinesBefore(k) IN
            /\ L[at + 1] = <<W("Chapter"), WS, W(IntStr(cs[k].number)), P(":"), WS>>
                             \o cs[k].title
            /\ L[at + 2] = IF cs[k].summary.t = "str" THEN cs[k].summary.s
                           ELSE PyRepr(cs[k].summary)
            /\ L[at + 3] = <<>>
            /\ \A j \in 1..Len(cs[k].scenes) :
                 /\ L[at + 2 + 2 * j] = cs[k].scenes[j].content
                 /\ L[at + 3 + 2 * j] = <<>>

\* A book with the themes hope and betrayal and two chapters, the second
\* skipped, was exported.
C15_Witness ==
  /\ pc = "Exported"
  /\ output.lines[3] = <<W("Themes:"), WS, W("hope"), P(","), WS, W("betrayal")>>
  /\ Len(book.chapters) = 2
  /\ output.lines[5] = <<W("Chapter"), WS, W("1"), P(":"), WS, W("Chapter"), WS, W("1")>>
  /\ output.lines[10] = <<W("Chapter"), WS, W("0"), P(":"), WS>>
  /\ Len(output.lines) = 14

\* C16: the first request is the character request, the second the
\* outline request, every later one a chapter request, and chapter
\* requests name strictly ascending positions; a step sends at most one
\* request, and none once a request has failed to return; the export
\* happens only with the chapter for position N appended.
C16_SequentialOrder ==
  /\ [](/\ \A n \in 1..Len(sent) :
             sent[n].stage = (IF n = 1 THEN "characters"
                              ELSE IF n = 2 THEN "outline" ELSE "chapter")
        /\ \A m, n \in Requests("chapter") :
             m < n => PromptPosition(sent[m].prompt) < PromptPosition(sent[n].prompt)
        /\ output.written => Len(book.chapters) = user_input.num_chapters)
  /\ [][/\ sent' # sent =>
             /\ Len(sent') = Len(sent) + 1
             /\ SubSeq(sent', 1, Len(sent)) = sent
             /\ error = ""
        /\ output' # output =>
             /\ Len(book.chapters) = user_input.num_chapters
             /\ book' = book]_vars

\* A run that sent the character, outline, chapter 1 and chapter 2
\* requests and exported the two chapters.
C16_Witness ==
  /\ pc = "Exported"
  /\ Len(sent) = 4
  /\ PromptPosition(sent[3].prompt) = 1
  /\ PromptPosition(sent[4].prompt) = 2
  /\ Len(book.chapters) = 2

\* C17: from the end of the character stage on, no step changes the
\* book's characters, title, genre, target audience, themes or metadata,
\* and a step changes the chapter sequence only by appending one chapter
\* during chapter generation.
C17_FrameAfterCharacters ==
  [][pc \notin {"Start", "Init"} =>
       /\ book'.characters = book.characters
       /\ book'.title = book.title
       /\ book'.genre = book.genre
       /\ book'.target_audience = book.target_audience
       /\ book'.themes = book.themes
       /\ book'.metadata = book.metadata
       /\ \/ book'.chapters = book.chapters
          \/ /\ pc = "Expanding"
             /\ Len(book'.chapters) = Len(book.chapters) + 1
             /\ SubSeq(book'.chapters, 1, Len(book.chapters)) = book.chapters]_vars

\* A book with two characters and two different chapters was exported.
C17_Witness ==
  /\ pc = "Exported"
  /\ Len(book.characters) = 2
  /\ Len(book.chapters) = 2
  /\ book.chapters[1] # book.chapters[2]
  /\ book.chapters[2].number = 2

\* C18: every chapter of the book is fixed by its position, the summary
\* of that position's outline entry and the completion it got: with no
\* usable summary it is the chapter with number 0 and empty title, else
\* its number is the position and its title "Chapter <number>"; and every
\* chapter prompt is made of the position and that summary alone.  The
\* entries' title and chapter_number occur nowhere.
C18_OutlineTitleNumberUnused ==
  /\ \A k \in 1..Len(book.chapters) :
       LET c == book.chapters[k]
           summary == Get(OutlineEntries[k], S("summary"))
       IN /\ Len(c.scenes) = 1
          /\ c.scenes[1].pov_character = PyNone
          /\ c.scenes[1].location = PyNone
          /\ c.word_count = TokenCount(IsSpaceSeq(c.scenes[1].content), FALSE)
          /\ IF Truthy(summary)
             THEN /\ c.number = k
                  /\ c.title = <<W("Chapter"), WS, W(IntStr(c.number))>>
                  /\ c.summary = summary
             ELSE /\ c.number = 0
                  /\ c.title = <<>>
                  /\ c.summary = PyStr(<<>>)
                  /\ c.scenes[1].content = <<>>
  /\ \A n \in Requests("chapter") :
       \E k \in 1..user_input.num_chapters :
         sent[n].prompt = ChapterPrompt(k, Get(OutlineEntries[k], S("summary")))

\* The first entry of the outline says chapter_number 9 and title "Z"; the
\* chapter made from it has number 1 and title "Chapter 1".
C18_Witness ==
  /\ Len(book.chapters) >= 1
  /\ Get(OutlineEntries[1], S("chapter_number")) = PyInt("9")
  /\ Get(OutlineEntries[1], S("title")) = Str("Z")
  /\ book.chapters[1].number = 1
  /\ book.chapters[1].title = <<W("Chapter"), WS, W("1")>>

\* C19: every character prompt is one fixed text, whatever the title,
\* genre and themes of the input; the outline prompt is made of the
\* input's chapter count, genre, themes and title alone and a chapter
\* prompt of its position and the outline's summary alone, so the parsed
\* characters occur in neither.
C19_PromptsIgnoreInputAndCast ==
  /\ \A n \in Requests("characters") :
       sent[n].prompt
         = <<W("Generate five unique characters for the novel with title {title}."), WS,
             W("Generate the characters based on themes {themes} based on genre {genre}."),
             WS, W("Provide the result in JSON format example given:")>>
  /\ \A n \in Requests("outline") :
       sent[n].prompt
         = OutlinePrompt(user_input.num_chapters, user_input.genre,
                         user_input.themes, user_input.title)
  /\ \A n \in Requests("chapter") :
       \E k \in 1..user_input.num_chapters :
         sent[n].prompt = ChapterPrompt(k, Get(OutlineEntries[k], S("summary")))

\* A run on the title "Emma" that parsed two characters and then sent
\* the outline and a chapter prompt.
C19_Witness ==
  /\ DOMAIN user_input = DOMAIN FullInput
  /\ user_input.title = S("Emma")
  /\ Len(book.characters) = 2
  /\ Len(sent) = 3
  /\ sent[3].stage = "chapter"

====
